---------------------------- MODULE Spec2Model ----------------------------
(***************************************************************************)
(* Model of backend/server.js: the availability / schedule / shift         *)
(* handlers and the request / notification workflow.                       *)
(*                                                                         *)
(* The persistent store is the state: one variable per table, each a set   *)
(* of rows.  One action per HTTP handler; the action is the whole handler, *)
(* from the destructuring of the request to the response.  `last` holds    *)
(* the call just served (handler, token subject, body) and the response    *)
(* status it got.  Where the interleaving of two calls matters a handler   *)
(* is also given statement by statement: `calls` holds, for each of two    *)
(* connections, the call in flight and the statement it awaits.            *)
(*                                                                         *)
(* Values.  A JSON field that is absent (undefined) is falsy exactly like  *)
(* 0 and "": integer fields use 0 and string fields "" for the falsy       *)
(* value.  A time of day "HH:MM" (the format line 500 parses with          *)
(* new Date(`2024-01-01T${t}Z`)) is the pair <<h, m>>, the falsy time is   *)
(* <<>>; the 12-hour form "hh:MM PM", which that expression cannot parse   *)
(* and a time column reads, is <<h, m, "PM">>.  A JavaScript number that   *)
(* may be NaN is <<n>> or <<>> (NaN).                                      *)
(***************************************************************************)
EXTENDS Integers, Sequences, FiniteSets, TLC

VARIABLES
    availability,    \* table availability (sin, weekday, emp_start, emp_end)
    schedule,        \* table schedule (week, sin, update_sin)
    shift,           \* table shift (day, week, month, msin, esin, length)
    request,         \* table request (id, week, day, fromsin, tosin, type, authorized)
    notifications,   \* table notifications (id, to_msin, to_sin, request_id, message, read)
    last,            \* the call just served and its response
    calls            \* per connection: the call in flight, where it stands

vars == <<availability, schedule, shift, request, notifications, last, calls>>

---------------------------------------------------------------------------
(* Identity directory: the manager and employee tables, written only by    *)
(* /create-manager and /add-employee, which are not modelled; read here.   *)

Managers == {"M1", "M2"}
Employees == {"E1", "E2"}

\* manager.departmentid
ManagerDept(sin) == IF sin = "M1" THEN "D1" ELSE "D2"

\* employee.departmentid
EmployeeDept(sin) == IF sin = "E1" THEN "D1" ELSE "D2"

\* employee.msin
EmployeeMsin(sin) == IF sin = "E1" THEN "M1" ELSE "M2"

\* The role claim of a token: 'manager' when the manager table holds the
\* e-mail, 'employee' otherwise.
TokenRole(sin) == IF sin \in Managers THEN "manager" ELSE "employee"

\* The subjects that hold a token (req.user.sin).
Subjects == Managers \cup Employees

---------------------------------------------------------------------------
(* JavaScript conversions used by the handlers.                            *)

NaN == <<>>

\* `!x` for an integer field
FalsyNum(x) == x = 0

\* `!x` for a string field
FalsyStr(x) == x = ""

\* `!t` for a time-of-day string
FalsyTime(t) == t = <<>>

\* new Date(`2024-01-01T${t}Z`) as a number, in minutes since midnight: the
\* ISO form "HH:MM" gives a time value, any other string an Invalid Date,
\* whose number is NaN.
DateOf(t) == IF Len(t) = 2 THEN <<t[1] * 60 + t[2]>> ELSE NaN

\* a >= b on numbers: false when either is NaN
JsGreaterEq(a, b) == IF a = NaN \/ b = NaN THEN FALSE ELSE a[1] >= b[1]

\* The value a time column stores for the string bound to it: "HH:MM" as it
\* is, "hh:MM PM" as the hour of the afternoon.
PgTime(t) ==
    IF Len(t) = 3
    THEN <<(t[1] % 12) + (IF t[3] = "PM" THEN 12 ELSE 0), t[2]>>
    ELSE t

\* parseFloat of the string pg returns for a time column, "HH:MM:SS":
\* the longest numeric prefix, i.e. the hour.
ParseFloatTime(t) == <<t[1]>>

\* ToNumber of the string "HH:MM:SS" (the implicit conversion of `>`):
\* not a numeric literal, so NaN.
ToNumberTime(t) == NaN

\* a > b on numbers: false when either is NaN
JsGreater(a, b) == IF a = NaN \/ b = NaN THEN FALSE ELSE a[1] > b[1]

\* a + n on numbers
JsAdd(a, n) == IF a = NaN THEN NaN ELSE <<a[1] + n>>

\* parseInt(x, 10) of an integer-valued field
ParseInt10(x) == x

---------------------------------------------------------------------------
(* POST /availability                                                      *)

\* The request bodies tried: two windows, a window that ends before it
\* starts (in the ISO form, and with its start in the 12-hour form), an
\* empty window, and bodies with one field absent.
AvailabilityBodies ==
    {[weekday |-> "Monday", emp_start |-> <<9, 0>>, emp_end |-> <<17, 0>>],
     [weekday |-> "Monday", emp_start |-> <<9, 0>>, emp_end |-> <<19, 0>>],
     [weekday |-> "Monday", emp_start |-> <<17, 0>>, emp_end |-> <<9, 0>>],
     [weekday |-> "Monday", emp_start |-> <<5, 0, "PM">>, emp_end |-> <<9, 0>>],
     [weekday |-> "Monday", emp_start |-> <<9, 0>>, emp_end |-> <<9, 0>>],
     [weekday |-> "", emp_start |-> <<9, 0>>, emp_end |-> <<17, 0>>],
     [weekday |-> "Monday", emp_start |-> <<>>, emp_end |-> <<17, 0>>],
     [weekday |-> "Monday", emp_start |-> <<9, 0>>, emp_end |-> <<>>]}

\* A body whose weekday is written in lower case.
LowerCaseBody ==
    [weekday |-> "monday", emp_start |-> <<9, 0>>, emp_end |-> <<17, 0>>]

\* The calls tried: every body by E1, and by E2 a window and the body with
\* the weekday in lower case.
AvailabilityCalls ==
    [sin : {"E1"}, body : AvailabilityBodies]
        \cup [sin : {"E2"},
              body : {[weekday |-> "Monday", emp_start |-> <<9, 0>>,
                       emp_end |-> <<17, 0>>],
                      LowerCaseBody}]

\* Variant: the INSERT without its ON CONFLICT clause taking effect.
AvailabilityInsertOnly(rows, sin, weekday, emp_start, emp_end) ==
    rows \cup {[sin |-> sin, weekday |-> weekday,
                emp_start |-> emp_start, emp_end |-> emp_end]}

\* INSERT ... ON CONFLICT (sin, weekday) DO UPDATE SET emp_start, emp_end
AvailabilityUpsert(rows, sin, weekday, emp_start, emp_end) ==
    {r \in rows : ~(r.sin = sin /\ r.weekday = weekday)}
        \cup {[sin |-> sin, weekday |-> weekday,
                emp_start |-> emp_start, emp_end |-> emp_end]}

\* new Date(start) >= new Date(end)
StartNotBeforeEnd(emp_start, emp_end) ==
    JsGreaterEq(DateOf(emp_start), DateOf(emp_end))

SetAvailability(sin, b) ==
    LET weekday == b.weekday
        emp_start == b.emp_start
        emp_end == b.emp_end
        error ==
            IF FalsyStr(weekday) \/ FalsyTime(emp_start) \/ FalsyTime(emp_end)
            THEN "required"
            ELSE IF StartNotBeforeEnd(emp_start, emp_end)
            THEN "start must be earlier than end"
            ELSE ""
    IN  /\ availability' =
            IF error = ""
            THEN AvailabilityUpsert(availability, sin, weekday,
                                    PgTime(emp_start), PgTime(emp_end))
            ELSE availability
        /\ last' = [op |-> "setAvailability", caller |-> sin,
                    args |-> b,
                    status |-> IF error = "" THEN 200 ELSE 400,
                    error |-> error]
        /\ UNCHANGED <<schedule, shift, request, notifications, calls>>

---------------------------------------------------------------------------
(* POST /schedule                                                          *)

\* `res.user.role`: authenticateToken attaches the token to req, never to
\* res, so res.user is undefined for every caller and reading its property
\* throws.
ResUserRole(managerSin) == "TypeError"

\* The request bodies tried ("E9" is in no table).
ScheduleBodies ==
    {[employeeSin |-> "E1", week |-> 3], [employeeSin |-> "E1", week |-> 4],
     [employeeSin |-> "E2", week |-> 3], [employeeSin |-> "E9", week |-> 3],
     [employeeSin |-> "", week |-> 3], [employeeSin |-> "E1", week |-> 0]}

\* INSERT ... ON CONFLICT (week, sin) DO UPDATE SET update_sin
ScheduleUpsert(rows, week, sin, update_sin) ==
    {r \in rows : ~(r.week = week /\ r.sin = sin)}
        \cup {[week |-> week, sin |-> sin, update_sin |-> update_sin]}

\* The handler from its try block on, given the role it read.
AssignScheduleError(role, employeeSin, week) ==
    IF role # "manager" THEN "only managers"
    ELSE IF FalsyNum(week) \/ FalsyStr(employeeSin) THEN "required"
    ELSE IF employeeSin \notin Employees THEN "employee not found"
    ELSE LET hasAvailability ==
                 Cardinality({r \in availability : r.sin = employeeSin}) > 0
         IN  IF hasAvailability /\ {r \in availability : r.sin = employeeSin} = {}
             THEN "no available time slots"
             ELSE ""

AssignScheduleStatus(error) ==
    CASE error = "" -> 200
      [] error = "only managers" -> 403
      [] error = "required" -> 400
      [] error = "employee not found" -> 404
      [] OTHER -> 400

\* `const role = res.user.role` stands before the try block: reading a
\* property of undefined throws a TypeError that no catch of the handler
\* sees, so the handler's promise rejects and it sends no response
\* (status 0 stands for "no response sent by the handler").
AssignSchedule(managerSin, b) ==
    LET employeeSin == b.employeeSin
        week == b.week
    IN
    /\ IF ResUserRole(managerSin) = "TypeError"
       THEN /\ schedule' = schedule
            /\ last' = [op |-> "assignSchedule", caller |-> managerSin,
                        args |-> b,
                        status |-> 0, error |-> "TypeError"]
       ELSE LET error ==
                    AssignScheduleError(ResUserRole(managerSin), employeeSin, week)
            IN  /\ schedule' =
                    IF error = ""
                    THEN ScheduleUpsert(schedule, week, employeeSin, managerSin)
                    ELSE schedule
                /\ last' = [op |-> "assignSchedule", caller |-> managerSin,
                            args |-> b,
                            status |-> AssignScheduleStatus(error),
                            error |-> error]
    /\ UNCHANGED <<availability, shift, request, notifications, calls>>

---------------------------------------------------------------------------
(* POST /shift                                                             *)

weekdayMap ==
    [d \in 1..7 |->
        CASE d = 1 -> "Monday" [] d = 2 -> "Tuesday" [] d = 3 -> "Wednesday"
          [] d = 4 -> "Thursday" [] d = 5 -> "Friday" [] d = 6 -> "Saturday"
          [] d = 7 -> "Sunday"]

\* The well-formed bodies tried, and bodies with one field falsy or out of
\* range.
ShiftBase == [day |-> 1, week |-> 3, month |-> 1, esin |-> "E1", length |-> 8]
ShiftBodies ==
    [day : {1, 2}, week : {3}, month : {1}, esin : {"E1"}, length : {8, 10}]
CreateShiftBodies ==
    ShiftBodies
        \cup {[ShiftBase EXCEPT !.day = d] : d \in {0, 8}}
        \cup {[ShiftBase EXCEPT !.week = w] : w \in {0, 53}}
        \cup {[ShiftBase EXCEPT !.month = m] : m \in {0, 13}}
        \cup {[ShiftBase EXCEPT !.esin = ""]}
        \cup {[ShiftBase EXCEPT !.length = l] : l \in {0, -1}}

\* SELECT * FROM schedule WHERE sin = $1 AND week = $2
ScheduleRows(esin, week) == {r \in schedule : r.sin = esin /\ r.week = week}

\* `scheduleResult.rows.legth === 0`: an array has no property `legth`, the
\* left side is undefined and never strictly equals 0.
NotScheduled(rows) == FALSE

\* SELECT emp_start, emp_end FROM availability WHERE sin = $1 AND weekday = $2
AvailabilityRows(esin, weekday) ==
    {r \in availability : r.sin = esin /\ r.weekday = weekday}

\* shiftEnd = parseFloat(emp_start) + parseFloat(length); shiftEnd > emp_end,
\* where emp_end is the string of the row
ExceedsAvailability(emp_start, emp_end, length) ==
    JsGreater(JsAdd(ParseFloatTime(emp_start), length), ToNumberTime(emp_end))

\* The rows of the shift table with a key.
ShiftRows(day, week, month, esin) ==
    {r \in shift : r.day = day /\ r.week = week /\ r.month = month /\ r.esin = esin}

\* Variant: a length check that refuses zero only.
InvalidLengthZeroOnly(length) == length = 0

\* if (length <= 0)
InvalidLength(length) == length <= 0

\* The checks of the handler in their order; "" when the insert is reached.
CreateShiftError(b) ==
    IF FalsyNum(b.day) \/ FalsyNum(b.week) \/ FalsyNum(b.month)
           \/ FalsyStr(b.esin) \/ FalsyNum(b.length)
    THEN "required"
    ELSE IF ParseInt10(b.day) < 1 \/ ParseInt10(b.day) > 7 THEN "invalid day"
    ELSE IF ParseInt10(b.week) < 1 \/ ParseInt10(b.week) > 52 THEN "invalid week"
    ELSE IF ParseInt10(b.month) < 1 \/ ParseInt10(b.month) > 12 THEN "invalid month"
    ELSE IF InvalidLength(b.length) THEN "invalid length"
    ELSE IF NotScheduled(ScheduleRows(b.esin, b.week)) THEN "not scheduled"
    ELSE LET rows == AvailabilityRows(b.esin, weekdayMap[ParseInt10(b.day)])
         IN  IF rows # {}
                  /\ LET row == CHOOSE r \in rows : TRUE
                     IN  ExceedsAvailability(row.emp_start, row.emp_end, b.length)
             THEN "exceeds availability"
             ELSE ""

\* Variant: a table without a unique key.
ShiftInsertNeverFails(b) == FALSE

\* INSERT INTO shift: the table's key (day, week, month, esin) is unique,
\* a second row with a key makes the statement fail.
ShiftInsertFails(b) == ShiftRows(b.day, b.week, b.month, b.esin) # {}

\* INSERT INTO shift (day, week, month, msin, esin, length)
ShiftInsert(rows, msin, b) ==
    rows \cup {[day |-> b.day, week |-> b.week, month |-> b.month,
                msin |-> msin, esin |-> b.esin, length |-> b.length]}

CreateShift(msin, b) ==
    LET error == CreateShiftError(b)
        inserts == error = "" /\ ~ShiftInsertFails(b)
    IN  /\ shift' =
            IF inserts THEN ShiftInsert(shift, msin, b) ELSE shift
        /\ last' = [op |-> "createShift", caller |-> msin, args |-> b,
                    status |-> IF error # "" THEN 400
                               ELSE IF inserts THEN 201 ELSE 500,
                    error |-> IF error = "" /\ ~inserts THEN "failed" ELSE error]
        /\ UNCHANGED <<availability, schedule, request, notifications, calls>>

\* The two connections whose calls interleave.
Procs == {1, 2}

\* A connection with no call in flight.
Idle == [op |-> "none", caller |-> "", args |-> <<>>, pc |-> "idle", status |-> 0]

\* POST /shift of connection p up to the await of the INSERT: the checks of
\* the body and the two SELECTs.  A body that fails a check is answered 400
\* here.
CreateShiftChecks(p, msin, b) ==
    LET error == CreateShiftError(b)
    IN  /\ calls[p].pc \in {"idle", "done"}
        /\ calls' = [calls EXCEPT ![p] =
                        [op |-> "createShift", caller |-> msin, args |-> b,
                         pc |-> IF error = "" THEN "insert" ELSE "done",
                         status |-> IF error = "" THEN 0 ELSE 400]]
        /\ UNCHANGED <<availability, schedule, shift, request, notifications, last>>

\* POST /shift of connection p from the INSERT to the response: 201, or 500
\* from the catch block when the statement fails.
CreateShiftInsert(p) ==
    LET c == calls[p]
        inserts == ~ShiftInsertFails(c.args)
    IN  /\ c.op = "createShift" /\ c.pc = "insert"
        /\ shift' = IF inserts THEN ShiftInsert(shift, c.caller, c.args) ELSE shift
        /\ calls' = [calls EXCEPT ![p].pc = "done",
                                  ![p].status = IF inserts THEN 201 ELSE 500]
        /\ UNCHANGED <<availability, schedule, request, notifications, last>>

---------------------------------------------------------------------------
(* PUT /shift                                                              *)

\* The bodies tried: an update may carry any truthy length.
UpdateShiftBodies ==
    ShiftBodies
        \cup {[ShiftBase EXCEPT !.length = l] : l \in {0, -1}}
        \cup {[ShiftBase EXCEPT !.day = 0]}

\* Variant: the check of DELETE /shift, which compares no department.
UpdateForbiddenUnknownManager(msin, employeeDeptId) == msin \notin Managers

\* SELECT departmentid FROM manager WHERE sin = $1, then
\* rows.length === 0 || rows[0].departmentid !== employeeDeptId
UpdateForbidden(msin, employeeDeptId) ==
    msin \notin Managers \/ ManagerDept(msin) # employeeDeptId

\* Variant: the WHERE clause without its day condition.
ShiftSetLengthWholeWeek(rows, b) ==
    {IF r.week = b.week /\ r.month = b.month /\ r.esin = b.esin
     THEN [r EXCEPT !.length = b.length] ELSE r : r \in rows}

\* UPDATE shift SET length = $5 WHERE day, week, month, esin
ShiftSetLength(rows, b) ==
    {IF r.day = b.day /\ r.week = b.week /\ r.month = b.month /\ r.esin = b.esin
     THEN [r EXCEPT !.length = b.length] ELSE r : r \in rows}

UpdateShiftError(msin, b) ==
    IF FalsyNum(b.day) \/ FalsyNum(b.week) \/ FalsyNum(b.month)
           \/ FalsyStr(b.esin) \/ FalsyNum(b.length)
    THEN "required"
    ELSE IF ShiftRows(b.day, b.week, b.month, b.esin) = {} THEN "shift not found"
    ELSE IF UpdateForbidden(msin, EmployeeDept(b.esin)) THEN "no permission"
    ELSE ""

ShiftStatus(error) ==
    CASE error = "" -> 200
      [] error = "shift not found" -> 404
      [] error = "no permission" -> 403
      [] OTHER -> 400

UpdateShift(msin, b) ==
    LET error == UpdateShiftError(msin, b)
    IN  /\ shift' = IF error = "" THEN ShiftSetLength(shift, b) ELSE shift
        /\ last' = [op |-> "updateShift", caller |-> msin, args |-> b,
                    status |-> ShiftStatus(error), error |-> error]
        /\ UNCHANGED <<availability, schedule, request, notifications, calls>>

---------------------------------------------------------------------------
(* DELETE /shift                                                           *)

DeleteShiftBodies ==
    [day : {1, 2}, week : {3}, month : {1}, esin : {"E1"}]
        \cup {[day |-> 0, week |-> 3, month |-> 1, esin |-> "E1"]}

\* Variant: the check of PUT /shift, which compares the departments.
DeleteForbiddenOtherDept(msin, employeeDeptId) ==
    msin \notin Managers \/ ManagerDept(msin) # employeeDeptId

\* SELECT departmentid FROM manager WHERE sin = $1, then rows.length === 0
DeleteForbidden(msin, employeeDeptId) == msin \notin Managers

\* DELETE FROM shift WHERE day, week, month, esin
ShiftDelete(rows, b) ==
    {r \in rows :
        ~(r.day = b.day /\ r.week = b.week /\ r.month = b.month /\ r.esin = b.esin)}

DeleteShiftError(msin, b) ==
    IF FalsyNum(b.day) \/ FalsyNum(b.week) \/ FalsyNum(b.month) \/ FalsyStr(b.esin)
    THEN "required"
    ELSE IF ShiftRows(b.day, b.week, b.month, b.esin) = {} THEN "shift not found"
    ELSE IF DeleteForbidden(msin, EmployeeDept(b.esin)) THEN "no permission"
    ELSE ""

DeleteShift(msin, b) ==
    LET error == DeleteShiftError(msin, b)
    IN  /\ shift' = IF error = "" THEN ShiftDelete(shift, b) ELSE shift
        /\ last' = [op |-> "deleteShift", caller |-> msin, args |-> b,
                    status |-> ShiftStatus(error), error |-> error]
        /\ UNCHANGED <<availability, schedule, request, notifications, calls>>

---------------------------------------------------------------------------
(* PUT /shift and DELETE /shift, statement by statement                    *)

\* PUT /shift of connection p up to the await of the UPDATE: the check of
\* the body, the SELECT of the shift row and the SELECT of the manager row.
\* A call that fails a check is answered here.
UpdateShiftChecks(p, msin, b) ==
    LET error == UpdateShiftError(msin, b)
    IN  /\ calls[p].pc \in {"idle", "done"}
        /\ calls' = [calls EXCEPT ![p] =
                        [op |-> "updateShift", caller |-> msin, args |-> b,
                         pc |-> IF error = "" THEN "update" ELSE "done",
                         status |-> IF error = "" THEN 0 ELSE ShiftStatus(error)]]
        /\ UNCHANGED <<availability, schedule, shift, request, notifications, last>>

\* PUT /shift of connection p from the UPDATE to the response: the result
\* of the statement is not read, the answer is 200.
UpdateShiftWrite(p) ==
    LET c == calls[p]
    IN  /\ c.op = "updateShift" /\ c.pc = "update"
        /\ shift' = ShiftSetLength(shift, c.args)
        /\ calls' = [calls EXCEPT ![p].pc = "done", ![p].status = 200]
        /\ UNCHANGED <<availability, schedule, request, notifications, last>>

\* DELETE /shift of connection p up to the await of the DELETE statement.
DeleteShiftChecks(p, msin, b) ==
    LET error == DeleteShiftError(msin, b)
    IN  /\ calls[p].pc \in {"idle", "done"}
        /\ calls' = [calls EXCEPT ![p] =
                        [op |-> "deleteShift", caller |-> msin, args |-> b,
                         pc |-> IF error = "" THEN "delete" ELSE "done",
                         status |-> IF error = "" THEN 0 ELSE ShiftStatus(error)]]
        /\ UNCHANGED <<availability, schedule, shift, request, notifications, last>>

\* DELETE /shift of connection p from the DELETE statement to the response:
\* the result of the statement is not read, the answer is 200.
DeleteShiftWrite(p) ==
    LET c == calls[p]
    IN  /\ c.op = "deleteShift" /\ c.pc = "delete"
        /\ shift' = ShiftDelete(shift, c.args)
        /\ calls' = [calls EXCEPT ![p].pc = "done", ![p].status = 200]
        /\ UNCHANGED <<availability, schedule, request, notifications, last>>

---------------------------------------------------------------------------
(* POST /add-request                                                       *)

\* The largest numbers of request and notification rows the model lets
\* the tables hold.
MaxRequests == 2
MaxNotifications == 3

\* The calls tried.  Bodies: without a requestId field (0: absent), and
\* with week or type absent.  Callers: two employees, and a manager (whose
\* SIN the employee table does not hold).  fault: the pool.query call that
\* rejects (0: none).
RequestBase == [requestId |-> 0, week |-> 2, day |-> 3, type |-> "vacation"]
CreateRequestCalls ==
    [sin : {"E1"}, body : {RequestBase}, fault : 0..3]
        \cup [sin : {"E2", "M1"}, body : {RequestBase}, fault : {0}]
        \cup [sin : {"E1"},
              body : {[RequestBase EXCEPT !.week = 0],
                      [RequestBase EXCEPT !.type = ""]},
              fault : {0}]

\* The next value of a table's serial id column.
NextId(rows) == Cardinality(rows) + 1

\* SELECT msin FROM employee WHERE sin = $1
MsinRows(sin) == IF sin \in Employees THEN {EmployeeMsin(sin)} ELSE {}

\* INSERT INTO request (week, day, fromSin, toSin, type); authorized is
\* left NULL.
RequestInsert(rows, week, day, fromSin, toSin, type) ==
    rows \cup {[id |-> NextId(rows), week |-> week, day |-> day,
                fromsin |-> fromSin, tosin |-> toSin, type |-> type,
                authorized |-> "null"]}

\* Variant: the INSERT naming the column to_sin instead of to_msin.
ManagerNotificationIntoToSin(rows, to_msin, request_id, message) ==
    rows \cup {[id |-> Cardinality(rows) + 1, to_msin |-> "", to_sin |-> to_msin,
                request_id |-> request_id, message |-> message, read |-> FALSE]}

\* INSERT INTO notifications (to_msin, request_id, message); to_sin is left
\* NULL ("") and read FALSE.
ManagerNotificationInsert(rows, to_msin, request_id, message) ==
    rows \cup {[id |-> NextId(rows), to_msin |-> to_msin, to_sin |-> "",
                request_id |-> request_id, message |-> message, read |-> FALSE]}

\* `New request from employee ${sin} for ${type}`
ManagerMessage(sin, type) == <<"New request from employee", sin, "for", type>>

\* fault: the pool.query call that rejects (0: none), which the catch
\* block answers with 500.
CreateRequest(sin, b, fault) ==
    LET required == FalsyNum(b.week) \/ FalsyNum(b.day) \/ FalsyStr(b.type)
        result == MsinRows(sin)
        unknown == ~required /\ fault # 1 /\ result = {}
        toSin == CHOOSE m \in result : TRUE
        reached(q) == ~required /\ ~unknown /\ fault \notin 1..q
        inserted == reached(2)
        notified == reached(3)
        error == IF required THEN "required"
                 ELSE IF fault = 1 THEN "failed"
                 ELSE IF unknown THEN "employee not found"
                 ELSE IF notified THEN "" ELSE "failed"
    IN  /\ fault \in 0..3
        /\ inserted => Cardinality(request) < MaxRequests
        /\ notified => Cardinality(notifications) < MaxNotifications
        /\ request' =
            IF inserted
            THEN RequestInsert(request, b.week, b.day, sin, toSin, b.type)
            ELSE request
        /\ notifications' =
            IF notified
            THEN ManagerNotificationInsert(notifications, toSin, b.requestId,
                                           ManagerMessage(sin, b.type))
            ELSE notifications
        /\ last' = [op |-> "createRequest", caller |-> sin,
                    args |-> [body |-> b, fault |-> fault],
                    status |-> CASE error = "" -> 201
                                 [] error = "failed" -> 500
                                 [] OTHER -> 400,
                    error |-> error]
        /\ UNCHANGED <<availability, schedule, shift, calls>>

---------------------------------------------------------------------------
(* PATCH /authorize-request/:id                                            *)

Digits == {"0", "1", "2", "3", "4", "5", "6", "7", "8", "9"}

DigitValue(c) ==
    CASE c = "0" -> 0 [] c = "1" -> 1 [] c = "2" -> 2 [] c = "3" -> 3
      [] c = "4" -> 4 [] c = "5" -> 5 [] c = "6" -> 6 [] c = "7" -> 7
      [] c = "8" -> 8 [] c = "9" -> 9

\* The value of the longest prefix of digits of a string (a sequence of
\* characters), acc being the value read so far; <<>> when there is none.
RECURSIVE DigitPrefix(_, _, _)
DigitPrefix(chars, any, acc) ==
    IF chars # <<>> /\ Head(chars) \in Digits
    THEN DigitPrefix(Tail(chars), TRUE, acc * 10 + DigitValue(Head(chars)))
    ELSE IF any THEN <<acc>> ELSE NaN

\* parseInt(str, 10): an optional sign, then the longest prefix of digits;
\* NaN when no digit is read.
ParseIntStr(chars) ==
    IF chars # <<>> /\ Head(chars) = "-"
    THEN LET n == DigitPrefix(Tail(chars), FALSE, 0)
         IN  IF n = NaN THEN NaN ELSE <<-n[1]>>
    ELSE DigitPrefix(chars, FALSE, 0)

IsNaN(x) == x = NaN

\* The calls tried.  The :id path parameter is a sequence of characters
\* (an id of a row, an id of no row, a word, zero, a negative number, and
\* digits followed by a letter);
\* the `authorized` field is JSON text: the two booleans, a string, and ""
\* for the field absent.  fault: the pool.query call that rejects (0: none).
AuthorizeRequestCalls ==
    [toSin : {"M1", "M2"}, id : {<<"1">>, <<"2">>},
     authorized : {"true", "false"}, fault : {0}]
        \cup [toSin : {"M1"}, id : {<<"1">>}, authorized : {"true", "false"},
              fault : 1..2]
        \cup [toSin : {"E1"}, id : {<<"1">>}, authorized : {"true"}, fault : {0}]
        \cup [toSin : {"M1"},
              id : {<<"9">>, <<"x">>, <<"0">>, <<"-", "1">>, <<"1", "x">>},
              authorized : {"true"}, fault : {0}]
        \cup [toSin : {"M1"}, id : {<<"1">>}, authorized : {"\"yes\"", ""},
              fault : {0}]

\* typeof authorized === 'boolean'
TypeofBoolean(a) == a \in {"true", "false"}

\* Variant: the WHERE clause without `AND tosin = $3`.
AuthorizeMatchesById(rows, id, toSin) == {r \in rows : r.id = id}

\* The rows of UPDATE request ... WHERE id = $2 AND tosin = $3
AuthorizeMatches(rows, id, toSin) == {r \in rows : r.id = id /\ r.tosin = toSin}

\* Variant: a statement that returns the rows and writes no decision.
RequestKeepAuthorized(rows, authorized, id, toSin) == rows

\* UPDATE request SET authorized = $1 WHERE id = $2 AND tosin = $3
RequestSetAuthorized(rows, authorized, id, toSin) ==
    {IF r \in AuthorizeMatches(rows, id, toSin)
     THEN [r EXCEPT !.authorized = authorized] ELSE r : r \in rows}

\* INSERT INTO notifications (to_sin, request_id, message); to_msin is left
\* NULL ("") and read FALSE.
EmployeeNotificationInsert(rows, to_sin, request_id, message) ==
    rows \cup {[id |-> NextId(rows), to_msin |-> "", to_sin |-> to_sin,
                request_id |-> request_id, message |-> message, read |-> FALSE]}

\* `Your request for ${type} has been ${authorized ? 'approved' : 'rejected'}`
EmployeeMessage(type, authorized) ==
    <<"Your request for", type, "has been",
      IF authorized = "true" THEN "approved" ELSE "rejected">>

AuthorizeRequest(toSin, idParam, authorized, fault) ==
    LET requestId == ParseIntStr(idParam)
        invalid == IsNaN(requestId) \/ ~TypeofBoolean(authorized)
        matched == IF invalid THEN {}
                   ELSE AuthorizeMatches(request, requestId[1], toSin)
        updated == ~invalid /\ fault # 1 /\ matched # {}
        notified == updated /\ fault # 2
        row == CHOOSE r \in matched : TRUE
        error == IF IsNaN(requestId) THEN "invalid request id"
                 ELSE IF ~TypeofBoolean(authorized) THEN "authorized must be boolean"
                 ELSE IF fault = 1 THEN "failed"
                 ELSE IF matched = {} THEN "not found or not authorized"
                 ELSE IF notified THEN "" ELSE "failed"
    IN  /\ fault \in 0..2
        /\ notified => Cardinality(notifications) < MaxNotifications
        /\ request' =
            IF updated
            THEN RequestSetAuthorized(request, authorized, requestId[1], toSin)
            ELSE request
        /\ notifications' =
            IF notified
            THEN EmployeeNotificationInsert(notifications, row.fromsin, requestId[1],
                                            EmployeeMessage(row.type, authorized))
            ELSE notifications
        /\ last' = [op |-> "authorizeRequest", caller |-> toSin,
                    args |-> [id |-> idParam, authorized |-> authorized,
                              fault |-> fault],
                    status |-> CASE error = "" -> 200
                                 [] error = "failed" -> 500
                                 [] error = "not found or not authorized" -> 404
                                 [] OTHER -> 400,
                    error |-> error]
        /\ UNCHANGED <<availability, schedule, shift, calls>>

---------------------------------------------------------------------------
(* PATCH /notifications/:id/read                                           *)

\* Variant: SET read = NOT read.
NotificationToggleRead(rows, id) ==
    {IF r.id = id THEN [r EXCEPT !.read = ~r.read] ELSE r : r \in rows}

\* UPDATE notifications SET read = TRUE WHERE id = $1
NotificationSetRead(rows, id) ==
    {IF r.id = id THEN [r EXCEPT !.read = TRUE] ELSE r : r \in rows}

\* result.rowCount: the rows the WHERE clause matched
ReadRowCount(rows, id) == Cardinality({r \in rows : r.id = id})

MarkNotificationRead(sin, idParam) ==
    LET id == ParseIntStr(idParam)
        error == IF IsNaN(id) THEN "invalid notification id"
                 ELSE IF ReadRowCount(notifications, id[1]) = 0 THEN "not found"
                 ELSE ""
    IN  /\ notifications' =
            IF IsNaN(id) THEN notifications
            ELSE NotificationSetRead(notifications, id[1])
        /\ last' = [op |-> "markNotificationRead", caller |-> sin,
                    args |-> [id |-> idParam],
                    status |-> CASE error = "" -> 200
                                 [] error = "not found" -> 404
                                 [] OTHER -> 400,
                    error |-> error]
        /\ UNCHANGED <<availability, schedule, shift, request, calls>>

---------------------------------------------------------------------------
(* POST /add-request and PATCH /authorize-request/:id, statement by        *)
(* statement.  No statement changes the id, fromsin, tosin or type of a    *)
(* request row, so the values a call keeps from an earlier statement       *)
(* (toSin; fromsin and type of the row the UPDATE returned) are read from  *)
(* the tables where the later statement uses them.                         *)

\* POST /add-request of connection p up to the await of the second INSERT:
\* the check of the body, the SELECT of the manager and the INSERT of the
\* request row.  A call that fails a check is answered 400 here.
CreateRequestInsert(p, sin, b) ==
    LET required == FalsyNum(b.week) \/ FalsyNum(b.day) \/ FalsyStr(b.type)
        result == MsinRows(sin)
        inserted == ~required /\ result # {}
        toSin == CHOOSE m \in result : TRUE
    IN  /\ calls[p].pc \in {"idle", "done"}
        /\ inserted => Cardinality(request) < MaxRequests
        /\ request' =
            IF inserted
            THEN RequestInsert(request, b.week, b.day, sin, toSin, b.type)
            ELSE request
        /\ calls' = [calls EXCEPT ![p] =
                        [op |-> "createRequest", caller |-> sin, args |-> b,
                         pc |-> IF inserted THEN "notify" ELSE "done",
                         status |-> IF inserted THEN 0 ELSE 400]]
        /\ UNCHANGED <<availability, schedule, shift, notifications, last>>

\* POST /add-request of connection p from the INSERT of the notification
\* to the response.
CreateRequestNotify(p) ==
    LET c == calls[p]
        toSin == CHOOSE m \in MsinRows(c.caller) : TRUE
    IN  /\ c.op = "createRequest" /\ c.pc = "notify"
        /\ Cardinality(notifications) < MaxNotifications
        /\ notifications' =
            ManagerNotificationInsert(notifications, toSin, c.args.requestId,
                                      ManagerMessage(c.caller, c.args.type))
        /\ calls' = [calls EXCEPT ![p].pc = "done", ![p].status = 201]
        /\ UNCHANGED <<availability, schedule, shift, request, last>>

\* PATCH /authorize-request/:id of connection p up to the await of the
\* INSERT: the two checks and the UPDATE.  A call that fails a check, or
\* whose UPDATE returns no row, is answered here.
AuthorizeUpdate(p, toSin, idParam, authorized) ==
    LET requestId == ParseIntStr(idParam)
        invalid == IsNaN(requestId) \/ ~TypeofBoolean(authorized)
        matched == IF invalid THEN {}
                   ELSE AuthorizeMatches(request, requestId[1], toSin)
    IN  /\ calls[p].pc \in {"idle", "done"}
        /\ request' =
            IF matched # {}
            THEN RequestSetAuthorized(request, authorized, requestId[1], toSin)
            ELSE request
        /\ calls' = [calls EXCEPT ![p] =
                        [op |-> "authorizeRequest", caller |-> toSin,
                         args |-> [id |-> idParam, authorized |-> authorized],
                         pc |-> IF matched # {} THEN "notify" ELSE "done",
                         status |-> IF invalid THEN 400
                                    ELSE IF matched = {} THEN 404 ELSE 0]]
        /\ UNCHANGED <<availability, schedule, shift, notifications, last>>

\* PATCH /authorize-request/:id of connection p from the INSERT of the
\* notification to the response.
AuthorizeNotify(p) ==
    LET c == calls[p]
        requestId == ParseIntStr(c.args.id)
        row == CHOOSE r \in AuthorizeMatches(request, requestId[1], c.caller) : TRUE
    IN  /\ c.op = "authorizeRequest" /\ c.pc = "notify"
        /\ Cardinality(notifications) < MaxNotifications
        /\ notifications' =
            EmployeeNotificationInsert(notifications, row.fromsin, requestId[1],
                                       EmployeeMessage(row.type, c.args.authorized))
        /\ calls' = [calls EXCEPT ![p].pc = "done", ![p].status = 200]
        /\ UNCHANGED <<availability, schedule, shift, request, last>>

---------------------------------------------------------------------------
(* The store when the server starts.  The schedule table outlives the      *)
(* process; it starts with any of the rows of SeedSchedule, the other      *)
(* tables start empty.                                                     *)

SeedSchedule == {[week |-> 3, sin |-> "E1", update_sin |-> "M1"]}

NoCall == [op |-> "none", caller |-> "", args |-> <<>>, status |-> 0, error |-> ""]

Init ==
    /\ availability = {}
    /\ schedule \in SUBSET SeedSchedule
    /\ shift = {}
    /\ request = {}
    /\ notifications = {}
    /\ last = NoCall
    /\ calls = [p \in Procs |-> Idle]

\* The subjects whose tokens call the shift handlers: the manager of the
\* employee's department, a manager of another department, an employee.
ShiftCallers == {"M1", "M2", "E1"}

NextShift ==
    \/ \E c \in AvailabilityCalls : SetAvailability(c.sin, c.body)
    \/ \E managerSin \in {"M1", "E1"}, b \in ScheduleBodies :
            AssignSchedule(managerSin, b)
    \/ \E msin \in {"M1", "E1"}, b \in CreateShiftBodies : CreateShift(msin, b)
    \/ \E msin \in ShiftCallers, b \in UpdateShiftBodies : UpdateShift(msin, b)
    \/ \E msin \in ShiftCallers, b \in DeleteShiftBodies : DeleteShift(msin, b)

SpecShift == Init /\ [][NextShift]_vars

\* Two connections, each sending one createShift call after the other, by
\* either manager, for one of the keys of ShiftBodies or with a length of
\* zero; the statements of the two calls interleave.
RaceBodies == ShiftBodies \cup {[ShiftBase EXCEPT !.length = 0]}

NextShiftRace ==
    \/ \E p \in Procs, msin \in Managers, b \in RaceBodies :
            CreateShiftChecks(p, msin, b)
    \/ \E p \in Procs : CreateShiftInsert(p)

SpecShiftRace == Init /\ [][NextShiftRace]_vars

\* Two connections, each sending createShift, updateShift and deleteShift
\* calls one after the other for the keys of ShiftBodies; the statements of
\* the two calls interleave.
NextShiftEditRace ==
    \/ \E p \in Procs, b \in ShiftBodies : CreateShiftChecks(p, "M1", b)
    \/ \E p \in Procs : CreateShiftInsert(p)
    \/ \E p \in Procs, msin \in {"M1", "M2"}, b \in ShiftBodies :
            UpdateShiftChecks(p, msin, b)
    \/ \E p \in Procs : UpdateShiftWrite(p)
    \/ \E p \in Procs, msin \in {"M1", "E1"}, b \in DeleteShiftBodies :
            DeleteShiftChecks(p, msin, b)
    \/ \E p \in Procs : DeleteShiftWrite(p)

SpecShiftEditRace == Init /\ [][NextShiftEditRace]_vars

\* The :id path parameters of the read calls tried.
ReadIdParams == {<<"1">>, <<"9">>, <<"x">>}

NextRequest ==
    \/ \E c \in CreateRequestCalls : CreateRequest(c.sin, c.body, c.fault)
    \/ \E c \in AuthorizeRequestCalls :
            AuthorizeRequest(c.toSin, c.id, c.authorized, c.fault)
    \/ \E sin \in {"M1", "E1"}, idParam \in ReadIdParams :
            MarkNotificationRead(sin, idParam)

\* The request workflow reads no schedule row: it is checked from the
\* empty store.
InitRequest == Init /\ schedule = {}

SpecRequest == InitRequest /\ [][NextRequest]_vars

\* Two connections, each sending createRequest and authorizeRequest calls
\* one after the other; the statements of the two calls interleave.
NextRequestRace ==
    \/ \E p \in Procs, sin \in {"E1", "M1"} : CreateRequestInsert(p, sin, RequestBase)
    \/ \E p \in Procs : CreateRequestNotify(p)
    \/ \E p \in Procs, toSin \in {"M1", "M2"}, idParam \in {<<"1">>, <<"2">>},
          authorized \in {"true", "false"} :
            AuthorizeUpdate(p, toSin, idParam, authorized)
    \/ \E p \in Procs : AuthorizeNotify(p)

SpecRequestRace == InitRequest /\ [][NextRequestRace]_vars

---------------------------------------------------------------------------
(* Properties.  A step is a call of handler h exactly when last'.op = h;   *)
(* unprimed variables are the store before the call, primed ones after.    *)

\* The minutes since midnight of a stored time of day.
MinutesOf(t) == t[1] * 60 + t[2]

\* availability.start + length <= availability.end, in minutes
Fits(emp_start, emp_end, length) ==
    MinutesOf(emp_start) + 60 * length <= MinutesOf(emp_end)

\* The availability rows that bind a shift row or a createShift body.
WindowsOf(rows, esin, day) ==
    {a \in rows : a.sin = esin /\ day \in 1..7 /\ a.weekday = weekdayMap[day]}

\* C1: a createShift call for an (employee, week) with no schedule row is
\* answered 400 and adds no shift row, and every shift row of the store has
\* a schedule row for its (employee, week).
C1_UnscheduledRejected ==
    [][last'.op = "createShift"
        => /\ ScheduleRows(last'.args.esin, last'.args.week) = {}
                => last'.status = 400 /\ shift' = shift
           /\ \A s \in shift' : ScheduleRows(s.esin, s.week)' # {}]_vars

\* C2: a createShift call with every field present and in range, for a
\* scheduled (employee, week) and a key not yet in the table: when the
\* employee has an availability row for the weekday of the day, the shift is
\* inserted if start + length <= end and the call is answered 400 and
\* inserts nothing otherwise; when there is no such row the shift is
\* inserted.
C2_InsertedIffFits ==
    [][(/\ last'.op = "createShift"
        /\ last'.args \in ShiftBodies
        /\ ScheduleRows(last'.args.esin, last'.args.week) # {}
        /\ ShiftRows(last'.args.day, last'.args.week, last'.args.month,
                     last'.args.esin) = {})
        => LET b == last'.args
               row == [day |-> b.day, week |-> b.week, month |-> b.month,
                       msin |-> last'.caller, esin |-> b.esin, length |-> b.length]
               windows == WindowsOf(availability, b.esin, b.day)
           IN  IF \A a \in windows : Fits(a.emp_start, a.emp_end, b.length)
               THEN last'.status = 201 /\ shift' = shift \cup {row}
               ELSE last'.status = 400 /\ shift' = shift]_vars

\* Every shift row fits every availability row of its employee and weekday.
Conforms(shiftRows, availabilityRows) ==
    \A s \in shiftRows :
        \A a \in WindowsOf(availabilityRows, s.esin, s.day) :
            Fits(a.emp_start, a.emp_end, s.length)

\* C3: every shift row whose employee has an availability row for the
\* shift's weekday satisfies start + length <= end; stated for the two
\* handlers the claim names: a setAvailability or updateShift call made in a
\* store where this holds (and where every shift row is scheduled) leaves a
\* store where it holds.
C3_ConformancePreserved ==
    [][(/\ last'.op \in {"setAvailability", "updateShift"}
        /\ \A s \in shift : ScheduleRows(s.esin, s.week) # {}
        /\ Conforms(shift, availability))
        => Conforms(shift', availability')]_vars

\* C4: an assignSchedule call by a caller with the manager role, with week
\* and employeeSin present and the employee existing, is answered 200 and
\* leaves exactly one schedule row for (employee, week), recording the
\* caller.
C4_AssignScheduleSucceeds ==
    (/\ last.op = "assignSchedule"
     /\ TokenRole(last.caller) = "manager"
     /\ last.args.week # 0
     /\ last.args.employeeSin \in Employees)
    => /\ last.status = 200
       /\ ScheduleRows(last.args.employeeSin, last.args.week)
            = {[week |-> last.args.week, sin |-> last.args.employeeSin,
                update_sin |-> last.caller]}

\* The availability rows of a key.
KeyRows(rows, sin, weekday) == {r \in rows : r.sin = sin /\ r.weekday = weekday}

\* C5: the availability table never holds two rows with one (employee,
\* weekday) key; after a setAvailability call answered 200 the one row of
\* the call's key carries the times of day the call's start and end denote,
\* and the rows of every other key are those of before the call.
C5_LastWriteWins ==
    /\ [](\A r1 \in availability, r2 \in availability :
            (r1.sin = r2.sin /\ r1.weekday = r2.weekday) => r1 = r2)
    /\ [][(last'.op = "setAvailability" /\ last'.status = 200)
            => /\ KeyRows(availability', last'.caller, last'.args.weekday)
                    = {[sin |-> last'.caller, weekday |-> last'.args.weekday,
                        emp_start |-> PgTime(last'.args.emp_start),
                        emp_end |-> PgTime(last'.args.emp_end)]}
               /\ availability' \ KeyRows(availability', last'.caller,
                                           last'.args.weekday)
                    = availability \ KeyRows(availability, last'.caller,
                                             last'.args.weekday)]_vars

\* C5 witness: a setAvailability call answered 200 has replaced the window of
\* one employee while the row of another employee is in the table.
C5_Witness ==
    /\ last.op = "setAvailability" /\ last.status = 200
    /\ last.args.emp_end = <<17, 0>>
    /\ \E r \in availability : r.sin # last.caller /\ r.emp_end = <<19, 0>>

\* The request rows an authorizeRequest call's :id names, whoever calls.
NamedRequests(rows, idParam) ==
    {r \in rows : ParseIntStr(idParam) = <<r.id>>}

\* C6: an authorizeRequest call is answered 200 only when the caller is the
\* destination manager of the request it names; a well-formed call by
\* anyone else on an existing request is answered 404 and leaves the request
\* and notification tables as they were.
C6_OnlyDestinationManager ==
    [][last'.op = "authorizeRequest"
        => LET named == NamedRequests(request, last'.args.id)
           IN  /\ last'.status = 200
                    => \E r \in named : r.tosin = last'.caller
               /\ (/\ named # {}
                   /\ \A r \in named : r.tosin # last'.caller
                   /\ last'.args.authorized \in {"true", "false"}
                   /\ last'.args.fault = 0)
                    => /\ last'.status = 404
                       /\ request' = request
                       /\ notifications' = notifications]_vars

\* C6 witness: a manager who is not the destination of an existing request
\* has called authorizeRequest on it and got 404.
C6_Witness ==
    /\ last.op = "authorizeRequest" /\ last.status = 404
    /\ last.caller \in Managers
    /\ \E r \in NamedRequests(request, last.args.id) :
            r.tosin # last.caller /\ r.authorized = "null"

\* C7: a createRequest call answered 201 has added exactly one request row
\* and exactly one notification, addressed to the manager of the calling
\* employee; an authorizeRequest call answered 200 has added exactly one
\* notification, addressed to the employee the named request came from.
C7_OneNotificationPerSuccess ==
    [][/\ (last'.op = "createRequest" /\ last'.status = 201)
            => /\ request \subseteq request'
               /\ Cardinality(request' \ request) = 1
               /\ notifications \subseteq notifications'
               /\ Cardinality(notifications' \ notifications) = 1
               /\ \A n \in notifications' \ notifications :
                    n.to_msin = EmployeeMsin(last'.caller) /\ n.to_sin = ""
       /\ (last'.op = "authorizeRequest" /\ last'.status = 200)
            => /\ notifications \subseteq notifications'
               /\ Cardinality(notifications' \ notifications) = 1
               /\ \A n \in notifications' \ notifications :
                    /\ n.to_msin = ""
                    /\ \E r \in NamedRequests(request, last'.args.id) :
                            n.to_sin = r.fromsin]_vars

\* C7 witness: after an authorizeRequest answered 200 the table holds a
\* notification to a manager and one to an employee.
C7_Witness ==
    /\ last.op = "authorizeRequest" /\ last.status = 200
    /\ \E n \in notifications : n.to_msin = "M2"
    /\ \E n \in notifications : n.to_sin = "E2"

\* C8: a request that is approved or rejected keeps its authorization state
\* in every later call, and no later call adds a notification for it.
C8_DecisionIsTerminal ==
    [][\A r \in request :
        r.authorized # "null"
            => /\ r \in request'
               /\ \A n \in notifications' \ notifications :
                    ~(n.to_sin # "" /\ n.request_id = r.id)]_vars

\* C9: a createRequest or authorizeRequest call answered with a failure
\* leaves the request and notification tables as they were.
C9_FailureChangesNothing ==
    [][(/\ last'.op \in {"createRequest", "authorizeRequest"}
        /\ last'.status \notin {200, 201})
        => request' = request /\ notifications' = notifications]_vars

\* C10: an updateShift call by anyone but a manager of the department of the
\* shift's employee leaves the shift table as it was, and is answered 403
\* when every field is present and the shift exists.
C10_CrossDepartmentRefused ==
    [][(/\ last'.op = "updateShift"
        /\ last'.args.esin \in Employees
        /\ ~(/\ last'.caller \in Managers
             /\ ManagerDept(last'.caller) = EmployeeDept(last'.args.esin)))
        => /\ shift' = shift
           /\ (/\ last'.args.length # 0
               /\ ShiftRows(last'.args.day, last'.args.week, last'.args.month,
                            last'.args.esin) # {})
                => last'.status = 403]_vars

\* C10 witness: a manager of another department has called updateShift with
\* a new length on an existing shift and got 403.
C10_Witness ==
    /\ last.op = "updateShift" /\ last.status = 403 /\ last.caller = "M2"
    /\ \E s \in ShiftRows(last.args.day, last.args.week, last.args.month,
                          last.args.esin) : s.length # last.args.length

\* The rows of a shift table that carry the key of a request body.
NamedShifts(rows, b) ==
    {r \in rows : r.day = b.day /\ r.week = b.week /\ r.month = b.month
                  /\ r.esin = b.esin}

\* C11: an updateShift call answered 200 changes the length of the one shift
\* row that carries the call's (employee, day, week, month) and nothing
\* else: that row keeps its other fields, every other row is the row of
\* before, and the table has as many rows as before.
C11_OnlyLengthOfNamedRow ==
    [][(last'.op = "updateShift" /\ last'.status = 200)
        => /\ Cardinality(NamedShifts(shift, last'.args)) = 1
           /\ Cardinality(shift') = Cardinality(shift)
           /\ shift \ NamedShifts(shift, last'.args)
                = shift' \ NamedShifts(shift', last'.args)
           /\ \A r \in NamedShifts(shift, last'.args) :
                  NamedShifts(shift', last'.args)
                      = {[r EXCEPT !.length = last'.args.length]}]_vars

\* An update answered 200 in a table of two rows, the other row carrying a
\* length that is not the call's.
C11_Witness ==
    /\ last.op = "updateShift" /\ last.status = 200
    /\ Cardinality(shift) = 2
    /\ \E r \in NamedShifts(shift, last.args) : r.length = last.args.length
    /\ \E r \in shift \ NamedShifts(shift, last.args) :
           r.length # last.args.length

\* C12: every shift row has its day in 1..7, its week in 1..52, its month in
\* 1..12 and a length above zero.
C12_ShiftRowsInRange ==
    \A s \in shift :
        /\ s.day \in 1..7
        /\ s.week \in 1..52
        /\ s.month \in 1..12
        /\ s.length > 0

\* A createShift body with one of its five fields absent, its day outside
\* 1..7, its week outside 1..52, its month outside 1..12 or a length that is
\* not above zero.
BadShiftBody(b) ==
    \/ b.day = 0 \/ b.week = 0 \/ b.month = 0 \/ b.esin = "" \/ b.length = 0
    \/ b.day \notin 1..7
    \/ b.week \notin 1..52
    \/ b.month \notin 1..12
    \/ b.length <= 0

NamedNotifications(rows, idParam) ==
    {n \in rows : ParseIntStr(idParam) = <<n.id>>}

\* C14: a markNotificationRead call that names an unread notification is
\* answered 200 and leaves it read, every other notification as before; a
\* call that names no notification, or one that is read already, is answered
\* 404 and leaves the notifications as they were.
C14_ReadOnceThenNotFound ==
    [][(last'.op = "markNotificationRead" /\ ~IsNaN(ParseIntStr(last'.args.id)))
        => LET named == NamedNotifications(notifications, last'.args.id)
           IN  IF \E n \in named : ~n.read
               THEN /\ last'.status = 200
                    /\ notifications'
                         = (notifications \ named)
                              \cup {[n EXCEPT !.read = TRUE] : n \in named}
               ELSE /\ last'.status = 404
                    /\ notifications' = notifications]_vars

\* C15: a setAvailability call whose start is not before its end, or that
\* lacks its weekday, start or end, is answered 400 and writes nothing, and
\* after a setAvailability call every availability row has its start before
\* its end.
C15_StartBeforeEnd ==
    [][last'.op = "setAvailability"
        => /\ (\/ last'.args.weekday = ""
               \/ last'.args.emp_start = <<>>
               \/ last'.args.emp_end = <<>>
               \/ MinutesOf(PgTime(last'.args.emp_start))
                     >= MinutesOf(PgTime(last'.args.emp_end)))
                 => /\ last'.status = 400
                    /\ availability' = availability
           /\ \A a \in availability' :
                  MinutesOf(a.emp_start) < MinutesOf(a.emp_end)]_vars

IsPositiveInteger(chars) ==
    /\ chars # <<>>
    /\ \A i \in 1..Len(chars) : chars[i] \in Digits
    /\ DigitPrefix(chars, FALSE, 0)[1] > 0

\* C17: an authorizeRequest call whose id parameter is not a positive
\* integer, or whose authorized field is not a boolean, is answered 400 and
\* leaves the requests and the notifications as they were.
C17_InvalidDecisionRefused ==
    [][(/\ last'.op = "authorizeRequest"
        /\ \/ ~IsPositiveInteger(last'.args.id)
           \/ last'.args.authorized \notin {"true", "false"})
        => /\ last'.status = 400
           /\ request' = request
           /\ notifications' = notifications]_vars

\* C18: the creator SIN of every shift row is the SIN of a manager, and a
\* createShift call made with an employee's identity inserts no row.
C18_ShiftsWrittenByManagers ==
    [][last'.op = "createShift"
        => /\ \A s \in shift' : s.msin \in Managers
           /\ last'.caller \in Employees => shift' = shift]_vars

\* C19: a createRequest call answered 201 inserts one request row and one
\* notification, and the notification's request_id is the id of that
\* request row.
C19_NotificationNamesItsRequest ==
    [][(last'.op = "createRequest" /\ last'.status = 201)
        => \E r \in request' \ request :
             /\ request' \ request = {r}
             /\ \E n \in notifications' \ notifications :
                  /\ notifications' \ notifications = {n}
                  /\ n.request_id = r.id]_vars

\* C20: the shift table never holds two rows with one (employee, day, week,
\* month) key, however the statements of two createShift calls interleave;
\* the INSERT of a createShift call whose key has a row already is refused,
\* the call is not answered 201 and the table (the row's length and creator
\* with it) stays as it was.
C20_KeyStaysUnique ==
    /\ [](\A r \in shift : NamedShifts(shift, r) = {r})
    /\ [][\A p \in Procs :
            (/\ calls[p].pc = "insert"
             /\ calls'[p].pc = "done"
             /\ NamedShifts(shift, calls[p].args) # {})
              => /\ calls'[p].status = 500
                 /\ shift' = shift]_vars

\* Two calls for one key with different lengths and callers have both been
\* answered, the first with 201 and the second with 500; the row is the
\* first call's.
C20_Witness ==
    /\ calls[1].pc = "done" /\ calls[1].status = 201
    /\ calls[2].pc = "done" /\ calls[2].status = 500
    /\ NamedShifts(shift, calls[1].args) = NamedShifts(shift, calls[2].args)
    /\ calls[1].args.length # calls[2].args.length
    /\ calls[1].caller # calls[2].caller
    /\ \E r \in NamedShifts(shift, calls[1].args) :
           r.length = calls[1].args.length /\ r.msin = calls[1].caller

\* C21: however the statements of updateShift and deleteShift calls on one
\* key interleave, an updateShift call answered 200 has set the length of a
\* row that is in the table when its UPDATE runs (a row a deleteShift call
\* removed after the existence check makes the call fail), and a deleteShift
\* call answered 200 has removed a row that is in the table when its DELETE
\* runs (of two calls on one row one is not answered 200).
C21_WriteFindsItsRow ==
    [][\A p \in Procs :
        (/\ calls[p].pc \in {"update", "delete"}
         /\ calls'[p].pc = "done"
         /\ calls'[p].status = 200)
          => NamedShifts(shift, calls[p].args) # {}]_vars

\* C22: no call removes a notification or changes its destination, its
\* request or its message, and a notification that is read stays read.
C22_NotificationsAppendOnly ==
    [][\A n \in notifications :
          \E m \in notifications' :
              /\ m.id = n.id
              /\ m.to_msin = n.to_msin /\ m.to_sin = n.to_sin
              /\ m.request_id = n.request_id
              /\ m.message = n.message
              /\ n.read => m.read]_vars

\* A read call answered 200 on a read notification, beside an unread one
\* addressed to an employee.
C22_Witness ==
    /\ last.op = "markNotificationRead" /\ last.status = 200
    /\ \E n \in NamedNotifications(notifications, last.args.id) : n.read
    /\ \E n \in notifications : ~n.read /\ n.to_sin # ""

\* C23: the weekday of every availability row is one of the seven names of
\* weekdayMap, Monday to Sunday.
C23_WeekdayIsCalendarName ==
    \A a \in availability : \E d \in DOMAIN weekdayMap : a.weekday = weekdayMap[d]

\* The employee-addressed notifications of a request.
DecisionNotices(rows, id) == {n \in rows : n.to_sin # "" /\ n.request_id = id}

\* The decision a request row holds, in the words of the notification.
DecisionWord(r) == IF r.authorized = "true" THEN "approved" ELSE "rejected"

\* C24: however the statements of authorizeRequest calls on one request
\* interleave, once no such call stands between its UPDATE and its INSERT
\* the latest employee-addressed notification of the request states the
\* decision the request row holds.
C24_LatestNoticeStatesDecision ==
    (\A p \in Procs : ~(calls[p].op = "authorizeRequest" /\ calls[p].pc = "notify"))
      => \A r \in request :
           \A n \in DecisionNotices(notifications, r.id) :
               (\A m \in DecisionNotices(notifications, r.id) : m.id <= n.id)
                 => n.message[4] = DecisionWord(r)

\* C25: in every state, those between the statements of a call included, a
\* notification addressed to a manager has a request whose destination is
\* that manager, and a notification addressed to an employee has the
\* request it names, filed by that employee and no longer pending.
C25_NoticeFollowsItsRequest ==
    \A n \in notifications :
        /\ n.to_msin # "" => \E r \in request : r.tosin = n.to_msin
        /\ n.to_sin # ""
             => \E r \in request :
                    /\ r.id = n.request_id
                    /\ r.fromsin = n.to_sin
                    /\ r.authorized # "null"

\* A state between the UPDATE and the INSERT of an authorizeRequest call
\* and between the two INSERTs of a createRequest call, with a notification
\* of either kind in the table.
C25_Witness ==
    /\ \E p \in Procs : calls[p].op = "authorizeRequest" /\ calls[p].pc = "notify"
    /\ \E p \in Procs : calls[p].op = "createRequest" /\ calls[p].pc = "notify"
    /\ \E n \in notifications : n.to_msin # ""
    /\ \E n \in notifications : n.to_sin # ""

\* C26: the read flag of a notification turns true only in a
\* markNotificationRead call made by the subject the notification is
\* addressed to.
C26_OnlyAddresseeReads ==
    [][\A n \in notifications : \A m \in notifications' :
          (m.id = n.id /\ ~n.read /\ m.read)
            => /\ last'.op = "markNotificationRead"
               /\ last'.caller \in {n.to_msin, n.to_sin}]_vars

=============================================================================
